---- MODULE Spec2Model ----
(***************************************************************************)
(* Model of the control loop of the rack application (src/src/app.rs):     *)
(* App::update measures the time since the previous update, keeps a        *)
(* bounded history of these deltas, draws the ui (App::show) and then      *)
(* advances the rack and feeds the audio output (App::process).            *)
(*                                                                         *)
(* Durations are whole nanoseconds.  f32 values are modelled bit-exactly   *)
(* as records [s, m, e] standing for (-1)^s * m * 2^e with a 24 bit        *)
(* significand (m = 0 or 2^23 <= m < 2^24), rounded to nearest, ties to    *)
(* even, which is what the `as f32` arithmetic of App::process computes.   *)
(* All intermediate integers stay below 2^31.                              *)
(***************************************************************************)
EXTENDS Integers, Sequences, FiniteSets, TLC

(***************************************************************************)
(* f32 arithmetic                                                          *)
(***************************************************************************)

\* Number of significand bits of an f32.
MantBits == 24

MantMin == 2 ^ (MantBits - 1)

MantMax == 2 ^ MantBits

F32Zero == [s |-> 0, m |-> 0, e |-> 0]

\* Number of bits of the natural number n < 2^31.
BitLen(n) == IF n = 0 THEN 0 ELSE CHOOSE k \in 1..31 : n \div 2 ^ (k - 1) = 1

\* The f32 nearest to (-1)^sign * (sig + t) * 2^ex, where 0 <= t < 1 and
\* sticky says whether t > 0: round to nearest, ties to even.
F32Round(sign, sig, ex, sticky) ==
    IF sig = 0 THEN F32Zero
    ELSE LET len == BitLen(sig)
         IN  IF len <= MantBits
             THEN [s |-> sign, m |-> sig * 2 ^ (MantBits - len),
                   e |-> ex - (MantBits - len)]
             ELSE LET k    == len - MantBits
                      q    == sig \div 2 ^ k
                      r    == sig % 2 ^ k
                      half == 2 ^ (k - 1)
                      up   == \/ r > half
                              \/ r = half /\ (sticky \/ q % 2 = 1)
                      q1   == IF up THEN q + 1 ELSE q
                  IN  IF q1 = MantMax
                      THEN [s |-> sign, m |-> MantMin, e |-> ex + k + 1]
                      ELSE [s |-> sign, m |-> q1, e |-> ex + k]

\* `n as f32` for an unsigned integer n < 2^31.
U32ToF32(n) == F32Round(0, n, 0, FALSE)

\* sig * 2^sh truncated to an integer: <<floor, lost a nonzero bit>> (sh <= 0).
ShiftRightSticky(sig, sh) ==
    IF sh >= 31 THEN <<0, sig # 0>>
    ELSE <<sig \div 2 ^ sh, sig % 2 ^ sh # 0>>

\* a + b in f32.  The operand of larger exponent is kept with three guard
\* bits, the other one is aligned to it with a sticky bit.
F32Add(a, b) ==
    IF a.m = 0 THEN b
    ELSE IF b.m = 0 THEN a
    ELSE LET hi  == IF a.e >= b.e THEN a ELSE b
             lo  == IF a.e >= b.e THEN b ELSE a
             sh  == ShiftRightSticky(lo.m * 8, hi.e - lo.e)
             big == hi.m * 16
             \* the sticky bit is kept as one more low bit
             sml == sh[1] * 2 + (IF sh[2] THEN 1 ELSE 0)
             sum == (IF hi.s = 0 THEN big ELSE -big)
                    + (IF lo.s = 0 THEN sml ELSE -sml)
             mag == IF sum < 0 THEN -sum ELSE sum
         IN  F32Round(IF sum < 0 THEN 1 ELSE 0, mag \div 2, hi.e - 3,
                      mag % 2 = 1)

\* One step of long division: the next `bits` quotient bits of p = <<q, r>>
\* over d, where r < d < 2^24 and bits <= 7.
DivStep(p, d, bits) ==
    <<p[1] * 2 ^ bits + (p[2] * 2 ^ bits) \div d, (p[2] * 2 ^ bits) % d>>

\* <<floor(r * 2^26 / d), remainder>> for r < 2 * d.
LongDiv26(r, d) ==
    LET p0 == <<r \div d, r % d>>
        p1 == DivStep(p0, d, 7)
        p2 == DivStep(p1, d, 7)
        p3 == DivStep(p2, d, 7)
    IN  DivStep(p3, d, 5)

\* a / b in f32 (b # 0): 26 quotient bits and a sticky bit are rounded.
F32Div(a, b) ==
    IF a.m = 0 THEN F32Zero
    ELSE LET p == LongDiv26(a.m, b.m)
         IN  F32Round((a.s + b.s) % 2, p[1], a.e - b.e - 26, p[2] # 0)

\* Half the significand width: the products of two half-width limbs fit.
LimbBits == MantBits \div 2

Limb == 2 ^ LimbBits

\* a * b in f32; the 48 bit product of the significands is formed from
\* 12 bit limbs as hi * 2^24 + lo.
F32Mul(a, b) ==
    IF a.m = 0 \/ b.m = 0 THEN F32Zero
    ELSE LET a1 == a.m \div Limb
             a0 == a.m % Limb
             b1 == b.m \div Limb
             b0 == b.m % Limb
             p0 == a0 * b0
             p1 == a1 * b0 + a0 * b1
             p2 == a1 * b1
             lof == p0 + (p1 % Limb) * Limb
             lo  == lof % MantMax
             hi  == p2 + p1 \div Limb + lof \div MantMax
             cut == MantBits - 2
         IN  F32Round((a.s + b.s) % 2, hi * 4 + lo \div 2 ^ cut,
                      a.e + b.e + cut, lo % 2 ^ cut # 0)

\* `x as usize` for x >= 0 below 2^31: truncation toward zero (negative
\* values saturate to 0).
F32ToUsize(x) ==
    IF x.m = 0 \/ x.s = 1 THEN 0
    ELSE IF x.e >= 0 THEN x.m * 2 ^ x.e
    ELSE IF -x.e >= 31 THEN 0
    ELSE x.m \div 2 ^ (-x.e)

NANOS_PER_SEC == 1000000000

\* Duration::as_secs_f32: (secs as f32) + (nanos as f32) / (1e9 as f32).
AsSecsF32(d) ==
    F32Add(U32ToF32(d \div NANOS_PER_SEC),
           F32Div(U32ToF32(d % NANOS_PER_SEC), U32ToF32(NANOS_PER_SEC)))

(***************************************************************************)
(* Frames and the rack (crate::frame, crate::rack: their contracts)        *)
(***************************************************************************)

\* Channels of a Frame.
NumChannels == 2

Channels == 1..NumChannels

\* Frame::ZERO.
ZERO == [c \in Channels |-> F32Zero]

\* Frame + Frame (AddAssign): channel-wise f32 addition.
FrameAdd(f, g) == [c \in Channels |-> F32Add(f[c], g[c])]

\* 2^k as an f32, negated when sign = 1.
F32Pow2(sign, k) == [s |-> sign, m |-> MantMin, e |-> k - (MantBits - 1)]

FrameA == <<F32Pow2(0, -1), F32Pow2(1, -1)>>

FrameB == <<F32Pow2(0, -2), F32Pow2(0, -2)>>

FrameOne == <<F32Pow2(0, 0), F32Pow2(1, 0)>>

FrameTiny == <<F32Pow2(0, -MantBits), F32Pow2(0, -MantBits)>>

\* The stems the module graph yields per sample tick, repeating: no stem,
\* one stem, two stems, and three stems of very different magnitude.
Patch == << <<>>, <<FrameA>>, <<FrameA, FrameB>>,
            <<FrameOne, FrameTiny, FrameTiny>> >>

\* The stems of sample tick t (t = 0, 1, ...).
StemsAt(t) == Patch[(t % Len(Patch)) + 1]

\* Rack::process_amount(sample_rate, amount) from rack position r: the rack
\* advances by exactly `amount` sample ticks ...
RackAfter(r, sample_rate, n) == r + n

\* RackOutputs of a rack that starts its patch over at every call.
RackOutputsRestart(r, sample_rate, n) == [k \in 1..n |-> StemsAt(k - 1)]

\* ... and yields one group of stems per tick.
RackOutputs(r, sample_rate, n) == [k \in 1..n |-> StemsAt(r + k - 1)]

(***************************************************************************)
(* The audio output (crate::output: its contract)                          *)
(***************************************************************************)

\* Capacity of the device's frame queue.
Cap == 2

\* Sample rates a device may run at.
DeviceRates == {44100, 48000}

\* The rate Output::sample_rate_or_default falls back to.
DefaultRate == 48000

\* Option<T> is a sequence of at most one element.
None == <<>>

Some(v) == <<v>>

IsSome(o) == o # <<>>

Unwrap(o) == o[1]

\* A freshly opened device: nothing queued.
NewInstance(rate) == [sample_rate |-> rate, queue |-> <<>>]

\* Instance::free_len.
FreeLen(inst) == Cap - Len(inst.queue)

\* Instance::push_frame: Err(Full) when nothing is free.
PushResult(inst, frame) ==
    IF FreeLen(inst) = 0
    THEN [ok |-> FALSE, inst |-> inst]
    ELSE [ok |-> TRUE, inst |-> [inst EXCEPT !.queue = Append(@, frame)]]

\* Output::sample_rate_or_default.
SampleRateOrDefault(out) ==
    IF IsSome(out) THEN Unwrap(out).sample_rate ELSE DefaultRate

(***************************************************************************)
(* App (src/src/app.rs)                                                    *)
(***************************************************************************)

\* Entries kept in last_deltas.
HistoryCap == 50

\* PushDelta evicting at the front: the delta just pushed is dropped.
PushDeltaPopFront(deltas, d) ==
    LET pushed == <<d>> \o deltas
    IN  IF Len(pushed) > HistoryCap THEN Tail(pushed) ELSE pushed

\* last_deltas after push_front(delta) and the eviction.
PushDelta(deltas, d) ==
    LET pushed == <<d>> \o deltas
    IN  IF Len(pushed) > HistoryCap
        THEN SubSeq(pushed, 1, Len(pushed) - 1)
        ELSE pushed

RECURSIVE SumDurations(_)
\* iter().sum::<Duration>()
SumDurations(deltas) ==
    IF deltas = <<>> THEN 0 ELSE Head(deltas) + SumDurations(Tail(deltas))

\* Duration / u32: whole nanoseconds, truncated.
DurationDiv(d, n) == d \div n

\* AvgDelta dividing by the capacity instead of the length.
AvgDeltaByCap(deltas) == DurationDiv(SumDurations(deltas), HistoryCap)

\* avg_delta of App::update.
AvgDelta(deltas) == DurationDiv(SumDurations(deltas), Len(deltas))

\* AbsentSamples with the delta taken in whole milliseconds instead of
\* seconds.
AbsentSamplesMillis(out, d) ==
    F32ToUsize(F32Mul(U32ToF32(SampleRateOrDefault(out)),
                      U32ToF32(d \div 1000000)))

\* Frame times (ns): less than a sample, 9 ms, 10 ms.
Deltas == {10000, 9000000, 10000000}

SteadyDeltas == {0, 20000000}

\* Frame times (ns) of a machine without audio hardware: those of Deltas
\* and 4.145833 ms, a hair less than 199 samples at 48000.
HeadlessDeltas == Deltas \cup {4145833}

TableDeltas == Deltas \cup SteadyDeltas \cup HeadlessDeltas

\* SamplesOf rounding up instead of truncating.
SamplesOfRoundUp(rate, d) ==
    F32ToUsize(F32Mul(U32ToF32(rate), AsSecsF32(d))) + 1

\* (rate as f32 * delta.as_secs_f32()) as usize
SamplesOf(rate, d) == F32ToUsize(F32Mul(U32ToF32(rate), AsSecsF32(d)))

\* SamplesOf for the rates and frame times of the runs, computed once.
SamplesTable ==
    [rate \in DeviceRates \cup {DefaultRate} |->
        [d \in TableDeltas |-> SamplesOf(rate, d)]]

\* The sample count of a tick without device.
AbsentSamples(out, d) ==
    IF d \in TableDeltas
    THEN SamplesTable[SampleRateOrDefault(out)][d]
    ELSE SamplesOf(SampleRateOrDefault(out), d)

\* Amount computed without device from the smoothed delta.
AmountFromAverage(out, deltas, d) ==
    IF IsSome(out) THEN FreeLen(Unwrap(out))
    ELSE AbsentSamples(out, AvgDelta(deltas))

\* Amount returning early without device: the rack is not advanced.
AmountSkipAbsent(out, deltas, d) ==
    IF IsSome(out) THEN FreeLen(Unwrap(out)) ELSE 0

\* Amount asking for one sample more than the device has room for.
AmountOffByOne(out, deltas, d) ==
    IF IsSome(out) THEN FreeLen(Unwrap(out)) + 1 ELSE AbsentSamples(out, d)

\* The amount App::process asks the rack for; deltas is self.last_deltas.
Amount(out, deltas, d) ==
    IF IsSome(out) THEN FreeLen(Unwrap(out)) ELSE AbsentSamples(out, d)

\* RateArg passing a fixed rate whatever the device runs at.
RateArgFixed(out) == DefaultRate

\* The sample rate App::process passes to process_amount.
RateArg(out) ==
    IF IsSome(out) THEN Unwrap(out).sample_rate ELSE SampleRateOrDefault(out)

\* OutputsGet reading one group too far.
OutputsGetNext(outs, i) ==
    IF i + 1 < Len(outs) THEN Some(outs[i + 2]) ELSE None

\* OutputsGet repeating the last group for an index past the end.
OutputsGetClamped(outs, i) ==
    IF i < Len(outs) THEN Some(outs[i + 1])
    ELSE IF outs # <<>> THEN Some(outs[Len(outs)]) ELSE None

\* outputs.get(i), i counted from 0.
OutputsGet(outs, i) == IF i < Len(outs) THEN Some(outs[i + 1]) ELSE None

\* The value `mixed` starts from.
MixStart == ZERO

\* MixInto assigning each stem instead of adding it: the last stem wins.
MixIntoAssign(mixed, frames) ==
    IF frames = <<>> THEN mixed ELSE frames[Len(frames)]

RECURSIVE MixInto(_, _)
\* for &frame in frames { mixed += frame }
MixInto(mixed, frames) ==
    IF frames = <<>> THEN mixed
    ELSE MixInto(FrameAdd(mixed, Head(frames)), Tail(frames))

\* MixInto from MixStart for the groups of the patch, computed once.
MixTable ==
    [g \in {Patch[k] : k \in 1..Len(Patch)} |-> MixInto(MixStart, g)]

\* `mixed` after the loop over the stems of a group.
MixGroup(frames) ==
    IF frames \in DOMAIN MixTable THEN MixTable[frames]
    ELSE MixInto(MixStart, frames)

\* Mixed taking the first group in every iteration.
MixedFirst(outs, i) ==
    LET got == OutputsGet(outs, 0)
    IN  IF IsSome(got) THEN MixGroup(Unwrap(got)) ELSE MixStart

\* The frame of loop iteration i.
Mixed(outs, i) ==
    LET got == OutputsGet(outs, i)
    IN  IF IsSome(got) THEN MixGroup(Unwrap(got)) ELSE MixStart

\* A loop that pushes one frame at most.
LoopCountOnce(n) == IF n > 1 THEN 1 ELSE n

\* A loop over 0..=amount.
LoopCountOver(n) == n + 1

\* A loop that stops one iteration early.
LoopCountShort(n) == IF n > 0 THEN n - 1 ELSE 0

\* The iterations of `for i in 0..amount`.
LoopCount(n) == n

\* ExpectOk for a result that is thrown away: a failed push goes unnoticed.
ExpectIgnore(res) == TRUE

\* .expect("producer should not be full"): the update goes on after Ok and
\* panics on Err(Full).
ExpectOk(res) == res.ok

\* RequestRepaint of an update that ends without asking for the next one.
RequestRepaintNever(e) == e

\* ctx.request_repaint(): the framework is asked to call update again at
\* once.
RequestRepaint(e) == [e EXCEPT !.repaint = TRUE]

\* The frames one call of App::process enqueues, in order, for an App with
\* this output, rack and last_deltas: none without device.
Enqueued(out, r, deltas, d) ==
    IF IsSome(out)
    THEN LET n    == Amount(out, deltas, d)
             outs == RackOutputs(r, RateArg(out), n)
         IN  [k \in 1..LoopCount(n) |-> Mixed(outs, k - 1)]
    ELSE <<>>

(***************************************************************************)
(* State                                                                   *)
(***************************************************************************)

\* Updates of a run with audio hardware.
MaxTicks == 3

\* Updates of the shorter runs: under fair scheduling, with an injected
\* defect, and with a rack that breaks its contract.
LiveTicks == 2

\* Updates of a run without audio hardware, whose frame time changes at
\* most MaxSwitches times.
HistTicks == 52

MaxSwitches == 1

VARIABLES
    pc,           \* where the control thread is
    env,          \* the machine: audio hardware, length of the run
    ticks,        \* updates begun
    rack,         \* App.rack: sample ticks the rack has advanced
    output,       \* App.output: Option of the device instance
    last_deltas,  \* App.last_deltas, front first
    delta,        \* update's delta
    avg_delta,    \* update's avg_delta
    amount,       \* process's amount / samples
    outputs,      \* process's outputs
    i,            \* iterations of the push loop done
    call_sr,      \* the sample rate passed to process_amount
    shadow,       \* a second App, run in step on the same inputs
    hist          \* history variables, read by no action

vars == <<pc, env, ticks, rack, output, last_deltas, delta, avg_delta,
          amount, outputs, i, call_sr, shadow, hist>>

\* hist.start: the output when update began; hist.shown: the output when
\* show returned; hist.rack0: the rack when process began; hist.device:
\* process took the branch of an attached device; hist.drained: the
\* consumer took a frame during this update; hist.pushed: the frames pushed
\* by this update; hist.all: every delta so far, newest first;
\* hist.switches: changes of the frame time; hist.sent: the sample ticks
\* whose frames were pushed to the device now open, in the order of the
\* pushes; hist.taken: how many of them the consumer has taken;
\* hist.taken0: hist.taken when process read free_len(); hist.enq: frames
\* enqueued so far, to any device; hist.asked: the sample ticks asked of
\* the rack so far, in updates with device and in updates without;
\* hist.faulted: room was taken away in this update.
InitHist ==
    [start |-> None, shown |-> None, rack0 |-> 0, device |-> FALSE,
     drained |-> FALSE, pushed |-> <<>>, all |-> <<>>, switches |-> 0,
     sent |-> <<>>, taken |-> 0, taken0 |-> 0, enq |-> 0,
     asked |-> [device |-> 0, absent |-> 0], faulted |-> FALSE]

\* The second App differs from the first one in its delta history only: it
\* has one update of 20 ms behind it.  It sees the same rack, output and
\* deltas; shadow.frames are the frames its process call enqueues.
InitShadow == [last_deltas |-> <<20000000>>, amount |-> 0, frames |-> <<>>]

InitCommon ==
    /\ pc = "idle"
    /\ ticks = 0
    /\ rack = 0
    /\ last_deltas = <<>>
    /\ delta = 0
    /\ avg_delta = 0
    /\ amount = 0
    /\ outputs = <<>>
    /\ i = 0
    /\ call_sr = 0
    /\ shadow = InitShadow
    /\ hist = InitHist

\* App::default on a machine with audio hardware: Output::new may or may not
\* have opened a device.
Init ==
    /\ InitCommon
    /\ env = [hw |-> TRUE, limit |-> MaxTicks, steady |-> FALSE,
              repaint |-> TRUE, ragged |-> FALSE]
    /\ output \in {None} \cup {Some(NewInstance(r)) : r \in DeviceRates}

\* App::default on a machine without audio hardware and with a steady frame
\* time.
InitSteady ==
    /\ InitCommon
    /\ env = [hw |-> FALSE, limit |-> HistTicks, steady |-> TRUE,
              repaint |-> TRUE, ragged |-> FALSE]
    /\ output = None

\* The deltas the clock may yield for the next update.
DeltaChoices ==
    IF env.steady
    THEN {d \in SteadyDeltas :
            \/ hist.all = <<>>
            \/ d = Head(hist.all)
            \/ hist.switches < MaxSwitches}
    ELSE IF env.hw THEN Deltas ELSE HeadlessDeltas

\* App::update up to the call of show: delta, last_deltas, avg_delta.  The
\* framework calls update for the first frame and then whenever a repaint
\* has been requested (no input event is assumed to arrive).
UpdateBegin ==
    /\ pc = "idle"
    /\ ticks < env.limit
    /\ env.repaint
    /\ env' = [env EXCEPT !.repaint = FALSE]
    /\ \E d \in DeltaChoices :
        /\ delta' = d
        /\ last_deltas' = PushDelta(last_deltas, d)
        /\ avg_delta' = AvgDelta(PushDelta(last_deltas, d))
        /\ hist' = [hist EXCEPT
                      !.start = output,
                      !.drained = FALSE,
                      !.faulted = FALSE,
                      !.pushed = <<>>,
                      !.all = <<d>> \o @,
                      !.switches = IF hist.all # <<>> /\ d # Head(hist.all)
                                   THEN @ + 1 ELSE @]
        /\ shadow' = [shadow EXCEPT !.last_deltas = PushDelta(@, d)]
    /\ ticks' = ticks + 1
    /\ pc' = "show"
    /\ UNCHANGED <<rack, output, amount, outputs, i, call_sr>>

\* What Output::show may leave behind: the output as it was, the device
\* closed, or (with audio hardware) a device opened.
ShowOutcomes(out) ==
    {out} \cup (IF IsSome(out) THEN {None}
                ELSE IF env.hw THEN {Some(NewInstance(r)) : r \in DeviceRates}
                ELSE {})

\* App::show.
Show ==
    /\ pc = "show"
    /\ \E o \in ShowOutcomes(output) :
        /\ output' = o
        /\ hist' = [hist EXCEPT !.shown = o,
                                !.sent = IF o = output THEN @ ELSE <<>>,
                                !.taken = IF o = output THEN @ ELSE 0]
    /\ pc' = "process"
    /\ UNCHANGED <<env, ticks, rack, last_deltas, delta, avg_delta, amount,
                   outputs, i, call_sr, shadow>>

\* What process_amount(sample_rate, n) may return from rack position r: n
\* groups; from a rack that breaks its contract also one group less or one
\* more.
Returned(r, sample_rate, n) ==
    IF env.ragged
    THEN {RackOutputs(r, sample_rate, m) :
            m \in {k \in {n - 1, n, n + 1} : k >= 0}}
    ELSE {RackOutputs(r, sample_rate, n)}

\* App::process up to the push loop: the branch on instance_mut(), the
\* amount and the call of process_amount.
ProcessBegin ==
    /\ pc = "process"
    /\ LET n  == Amount(output, last_deltas, delta)
           sr == RateArg(output)
       IN  /\ amount' = n
           /\ call_sr' = sr
           /\ rack' = RackAfter(rack, sr, n)
           \* without device the result of process_amount is dropped
           /\ IF IsSome(output)
              THEN \E outs \in Returned(rack, sr, n) : outputs' = outs
              ELSE outputs' = <<>>
           /\ pc' = IF IsSome(output) /\ LoopCount(n) > 0
                    THEN "push" ELSE "finish"
    /\ i' = 0
    /\ shadow' = [shadow EXCEPT
                    !.amount = Amount(output, shadow.last_deltas, delta),
                    !.frames = Enqueued(output, rack, shadow.last_deltas,
                                        delta)]
    /\ hist' = [hist EXCEPT
                  !.rack0 = rack,
                  !.device = IsSome(output),
                  !.taken0 = hist.taken,
                  !.asked.device =
                      IF IsSome(output)
                      THEN @ + Amount(output, last_deltas, delta) ELSE @,
                  !.asked.absent =
                      IF IsSome(output)
                      THEN @ ELSE @ + Amount(output, last_deltas, delta)]
    /\ UNCHANGED <<env, ticks, output, last_deltas, delta, avg_delta>>

\* One iteration of the push loop; expect() panics on Err(Full).
PushFrame ==
    /\ pc = "push"
    /\ LET mixed == Mixed(outputs, i)
           res   == PushResult(Unwrap(output), mixed)
       IN  IF ExpectOk(res)
           THEN /\ output' = Some(res.inst)
                /\ i' = i + 1
                /\ hist' = [hist EXCEPT
                              !.pushed = Append(@, mixed),
                              !.sent = Append(@, hist.rack0 + i),
                              !.enq = @ + 1]
                /\ pc' = IF i + 1 < LoopCount(amount) THEN "push" ELSE "finish"
           ELSE /\ pc' = "panicked"
                /\ UNCHANGED <<output, i, hist>>
    /\ UNCHANGED <<env, ticks, rack, last_deltas, delta, avg_delta, amount,
                   outputs, call_sr, shadow>>

\* The rest of App::update: request_repaint.
UpdateEnd ==
    /\ pc = "finish"
    /\ pc' = "idle"
    /\ env' = RequestRepaint(env)
    /\ UNCHANGED <<ticks, rack, output, last_deltas, delta, avg_delta,
                   amount, outputs, i, call_sr, shadow, hist>>

\* The device's audio thread takes the oldest queued frame.
Drain ==
    /\ IsSome(output)
    /\ Unwrap(output).queue # <<>>
    /\ pc # "panicked"
    /\ output' = Some([Unwrap(output) EXCEPT !.queue = Tail(@)])
    /\ hist' = [hist EXCEPT !.drained = @ \/ pc # "idle",
                            !.taken = @ + 1]
    /\ UNCHANGED <<pc, env, ticks, rack, last_deltas, delta, avg_delta,
                   amount, outputs, i, call_sr, shadow>>

Next ==
    \/ UpdateBegin
    \/ Show
    \/ ProcessBegin
    \/ PushFrame
    \/ UpdateEnd
    \/ Drain

Spec == Init /\ [][Next]_vars

\* Without audio hardware no device is ever open: nothing is pushed or
\* drained.
NextSteady ==
    \/ UpdateBegin
    \/ Show
    \/ ProcessBegin
    \/ UpdateEnd

SpecSteady == InitSteady /\ [][NextSteady]_vars

\* App::default on a machine with audio hardware, for a run of LiveTicks
\* updates.
InitLive ==
    /\ InitCommon
    /\ env = [hw |-> TRUE, limit |-> LiveTicks, steady |-> FALSE,
              repaint |-> TRUE, ragged |-> FALSE]
    /\ output \in {None} \cup {Some(NewInstance(r)) : r \in DeviceRates}

\* The defect Full exists to report: room that free_len() counted is taken
\* by a frame this update did not push, before the update's push comes;
\* once per update.
Overcommit ==
    /\ pc = "push"
    /\ IsSome(output)
    /\ FreeLen(Unwrap(output)) > 0
    /\ ~hist.faulted
    /\ output' = Some([Unwrap(output) EXCEPT !.queue = Append(@, ZERO)])
    /\ hist' = [hist EXCEPT !.faulted = TRUE]
    /\ UNCHANGED <<pc, env, ticks, rack, last_deltas, delta, avg_delta,
                   amount, outputs, i, call_sr, shadow>>

\* App::default on a machine without audio hardware, the frame time
\* irregular.
InitAbsent ==
    /\ InitCommon
    /\ env = [hw |-> FALSE, limit |-> MaxTicks, steady |-> FALSE,
              repaint |-> TRUE, ragged |-> FALSE]
    /\ output = None

SpecAbsent == InitAbsent /\ [][NextSteady]_vars

\* The program with that defect injected.
NextFault ==
    \/ UpdateBegin
    \/ Show
    \/ ProcessBegin
    \/ PushFrame
    \/ UpdateEnd
    \/ Drain
    \/ Overcommit

SpecFault == InitLive /\ [][NextFault]_vars

\* The control thread runs on when it can, and the framework calls update
\* when a repaint is requested; nothing is assumed of the audio thread.
Fairness ==
    /\ WF_vars(UpdateBegin)
    /\ WF_vars(Show)
    /\ WF_vars(ProcessBegin)
    /\ WF_vars(PushFrame)
    /\ WF_vars(UpdateEnd)

SpecLive == InitLive /\ [][Next]_vars /\ Fairness

\* The program with a rack whose process_amount may return one group less
\* or more than it was asked for.
InitRagged ==
    /\ InitCommon
    /\ env = [hw |-> TRUE, limit |-> LiveTicks, steady |-> FALSE,
              repaint |-> TRUE, ragged |-> TRUE]
    /\ output \in {None} \cup {Some(NewInstance(r)) : r \in DeviceRates}

SpecRagged == InitRagged /\ [][Next]_vars

(***************************************************************************)
(* Properties                                                              *)
(***************************************************************************)

\* The control thread is past the branch of process in this update.
Branched == pc \in {"push", "finish", "panicked"}

C1_WitnessZero ==
    /\ pc = "finish"
    /\ IsSome(hist.shown)
    /\ ~hist.drained
    /\ FreeLen(Unwrap(hist.shown)) = 0
    /\ amount = 0
    /\ hist.pushed = <<>>

\* C2: with a device attached the queue never holds more than its capacity,
\* and at the end of every update in which the consumer took nothing the
\* queue is exactly full.
C2_NoOverrunNoUnderfill ==
    IsSome(output) =>
        /\ Len(Unwrap(output).queue) <= Cap
        /\ (pc = "finish" /\ ~hist.drained) => FreeLen(Unwrap(output)) = 0

\* An undisturbed update has topped the queue up with new frames.
C2_Witness ==
    /\ pc = "finish"
    /\ IsSome(output)
    /\ ~hist.drained
    /\ hist.pushed # <<>>
    /\ Len(Unwrap(output).queue) = Cap

RECURSIVE MulDivMod(_, _, _)
\* <<floor(a * b / n), (a * b) % n>> by doubling, for a + 2 * n < 2^31.
MulDivMod(a, b, n) ==
    IF b = 0 THEN <<0, 0>>
    ELSE LET h == MulDivMod(a, b \div 2, n)
             r == 2 * h[2] + (b % 2) * a
         IN  <<2 * h[1] + r \div n, r % n>>

\* floor(rate * d seconds), exactly.
ExactSamples(rate, d) == MulDivMod(rate, d, NANOS_PER_SEC)[1]

\* C3, as claimed: in an update without device the amount passed to
\* process_amount is floor(sample_rate_or_default() * delta in seconds).
C3_ExactFloor ==
    (pc = "finish" /\ ~hist.device) =>
        amount = ExactSamples(SampleRateOrDefault(hist.shown), delta)

\* C3, amended: in an update without device the amount is the f32 product
\* of rate and seconds, truncated; for a delta below one second it is
\* within one sample of floor(rate * delta), and with the fallback rate
\* 48000 and a delta of 10 ms it is exactly 480.
C3_F32Samples ==
    (pc = "finish" /\ ~hist.device) =>
        LET exact == ExactSamples(SampleRateOrDefault(hist.shown), delta)
        IN  /\ call_sr = 48000
            /\ amount >= exact - 1
            /\ amount <= exact + 1
            /\ delta = 10000000 => amount = 480
            /\ delta = 20000000 => amount = 960
            /\ delta = 10000 => amount = 0

\* An update without device and a delta of 10 ms has asked for 480 samples.
C3_Witness ==
    /\ pc = "finish"
    /\ ~hist.device
    /\ delta = 10000000
    /\ amount = 480
    /\ rack = hist.rack0 + 480

\* The number of deltas retained after `ticks` updates.
Retained == IF ticks < HistoryCap THEN ticks ELSE HistoryCap

\* C4: after the n-th update (n >= 1) last_deltas holds exactly the
\* min(n, 50) most recent deltas, newest first: between 1 and 50 entries,
\* and once it is full each new delta evicts exactly the oldest one.
C4_RecentDeltas ==
    ticks >= 1 =>
        /\ Len(hist.all) = ticks
        /\ Len(last_deltas) = Retained
        /\ Len(last_deltas) >= 1
        /\ Len(last_deltas) <= 50
        /\ \A k \in 1..Len(last_deltas) : last_deltas[k] = hist.all[k]

\* The 51st update has evicted the first delta, which differed from the
\* others.
C4_Witness ==
    /\ ticks = 51
    /\ Len(last_deltas) = 50
    /\ hist.all[51] = 0
    /\ \A k \in 1..50 : last_deltas[k] = 20000000

RECURSIVE SumFirst(_, _)
\* The sum of the first n entries of seq.
SumFirst(seq, n) == IF n = 0 THEN 0 ELSE SumFirst(seq, n - 1) + seq[n]

\* C5: the average computed in an update is the sum of the deltas retained
\* after this update's insertion and eviction, divided by their number (in
\* whole nanoseconds); evicted deltas do not contribute: 50 deltas of 20 ms
\* followed by one of 0 ms average to 19.6 ms.
C5_MeanOfRetained ==
    ticks >= 1 =>
        LET sum == SumFirst(hist.all, Retained)
        IN  /\ avg_delta * Retained <= sum
            /\ sum < avg_delta * Retained + Retained
            /\ (/\ ticks = 51
                /\ hist.all[1] = 0
                /\ \A k \in 2..51 : hist.all[k] = 20000000)
               => avg_delta = 19600000

\* 50 deltas of 20 ms and then one of 0 ms: the average is 19.6 ms.
C5_Witness ==
    /\ ticks = 51
    /\ hist.all[1] = 0
    /\ \A k \in 2..51 : hist.all[k] = 20000000
    /\ avg_delta = 19600000

\* C6: the delta history and the smoothed average never influence
\* scheduling: two Apps that agree on rack, output and the update's delta
\* but differ in last_deltas ask the rack for the same amount and enqueue
\* the same frames.
C6_HistoryDoesNotSchedule ==
    Branched =>
        /\ amount = shadow.amount
        /\ pc = "finish" => hist.pushed = shadow.frames

\* An update without device has asked for samples while the two histories
\* and their averages differed.
C6_Witness ==
    /\ pc = "finish"
    /\ ~hist.device
    /\ amount > 0
    /\ shadow.last_deltas # last_deltas
    /\ AvgDelta(shadow.last_deltas) # avg_delta
    /\ AbsentSamples(output, avg_delta) # amount

\* The same for an update that has pushed frames to a device.
C6_WitnessDevice ==
    /\ pc = "finish"
    /\ hist.device
    /\ hist.pushed # <<>>
    /\ hist.pushed = shadow.frames
    /\ shadow.last_deltas # last_deltas

\* The sample rate of an output: the device's, or the fallback.
RateOf(out) == IF IsSome(out) THEN Unwrap(out).sample_rate ELSE 48000

C7_WitnessDetach ==
    /\ pc = "finish"
    /\ IsSome(hist.start)
    /\ ~IsSome(hist.shown)
    /\ ~hist.device

\* C8: in an update without device push_frame is never called and the
\* output is left as it was; the only effect of process is that the rack
\* has advanced by the computed sample count (the stems are dropped).
C8_AbsentOnlyAdvances ==
    (Branched /\ ~hist.device) =>
        /\ pc = "finish"
        /\ hist.pushed = <<>>
        /\ i = 0
        /\ outputs = <<>>
        /\ output = hist.shown
        /\ output = None
        /\ rack = hist.rack0 + AbsentSamples(hist.shown, delta)
        /\ amount = AbsentSamples(hist.shown, delta)

\* An update without device has advanced the rack by 431 samples.
C8_Witness ==
    /\ pc = "finish"
    /\ ~hist.device
    /\ amount = 431
    /\ rack = hist.rack0 + 431
    /\ hist.pushed = <<>>

\* C9: when the group of stems of a sample is empty, the frame mixed and
\* enqueued for it is Frame::ZERO, and no error is raised.
C9_EmptyGroupIsSilence ==
    /\ \A k \in 1..Len(hist.pushed) :
          outputs[k] = <<>> =>
              /\ hist.pushed[k] = ZERO
              /\ \A c \in Channels : hist.pushed[k][c].m = 0
    /\ pc # "panicked"

\* Silence has been enqueued for an empty group, and the next frame of the
\* update is not silence.
C9_Witness ==
    \E k \in 1..Len(hist.pushed) :
        /\ outputs[k] = <<>>
        /\ hist.pushed[k] = ZERO
        /\ Len(hist.pushed) > k
        /\ hist.pushed[k + 1] # ZERO

\* The orders the stems of a group can be mixed in.
Perms(seq) ==
    LET n == Len(seq)
    IN  {[k \in 1..n |-> seq[f[k]]] :
            f \in {g \in [1..n -> 1..n] :
                     \A a, b \in 1..n : g[a] = g[b] => a = b}}

\* The frame App::process mixes from the stems in this order.
MixOf(stems) == MixInto(MixStart, stems)

\* C10, as claimed: the mixed frame does not depend on the order of the
\* stems: every permutation of a group accumulates from ZERO to the same
\* frame, the addition being associative and commutative with identity
\* ZERO.
C10_AnyOrderSameFrame ==
    \A k \in 1..Len(hist.pushed) :
        \A p \in Perms(outputs[k]) : MixOf(p) = hist.pushed[k]

\* x in units of 2^-24, exact when x is a multiple of the unit below 2^7.
Units(x) ==
    IF x.m = 0 THEN 0
    ELSE LET sh  == x.e + MantBits
             mag == IF sh >= 0 THEN x.m * 2 ^ sh ELSE x.m \div 2 ^ (-sh)
         IN  IF x.s = 1 THEN -mag ELSE mag

IsUnits(x) == x.m = 0 \/ x.e + MantBits >= 0 \/ x.m % 2 ^ (-(x.e + MantBits)) = 0

Abs(n) == IF n < 0 THEN -n ELSE n

RECURSIVE SumAbs(_, _)
\* The sum of the magnitudes of channel c of the stems, in units.
SumAbs(stems, c) ==
    IF stems = <<>> THEN 0
    ELSE Abs(Units(Head(stems)[c])) + SumAbs(Tail(stems), c)

\* x and y differ by at most (n - 1) ulp of a value of magnitude mag units:
\* not at all when every multiple of the unit up to mag is an f32.
WithinRounding(x, y, n, mag) ==
    IF BitLen(mag) <= MantBits THEN x = y
    ELSE Abs(Units(x) - Units(y)) <= (n - 1) * 2 ^ (BitLen(mag) - MantBits)

\* C10, amended: the mixed frame depends on the order of the stems only
\* through f32 rounding.  ZERO is the identity and += is commutative,
\* exactly, so a group of at most two stems mixes to the same frame in any
\* order; += is associative only up to rounding, so the permutations of n
\* stems mix to frames that differ per channel by at most (n - 1) ulp of
\* the sum of the stems' magnitudes.
C10_OrderUpToRounding ==
    \A k \in 1..Len(hist.pushed) :
        LET g == outputs[k]
            n == Len(g)
        IN  /\ \A a \in 1..n :
                  /\ FrameAdd(ZERO, g[a]) = g[a]
                  /\ FrameAdd(g[a], ZERO) = g[a]
                  /\ \A c \in Channels : IsUnits(g[a][c])
            /\ \A a, b \in 1..n : FrameAdd(g[a], g[b]) = FrameAdd(g[b], g[a])
            /\ \A p \in Perms(g) :
                  /\ n <= 2 => MixOf(p) = hist.pushed[k]
                  /\ \A c \in Channels :
                        /\ IsUnits(MixOf(p)[c])
                        /\ WithinRounding(MixOf(p)[c], hist.pushed[k][c], n,
                                          SumAbs(g, c))

\* A group of three stems has been mixed and enqueued, and another order of
\* its stems mixes to a different frame.
C10_Witness ==
    \E k \in 1..Len(hist.pushed) :
        /\ Len(outputs[k]) = 3
        /\ \E p \in Perms(outputs[k]) : MixOf(p) # hist.pushed[k]

\* A group of two stems has been mixed and enqueued.
C10_WitnessPair ==
    \E k \in 1..Len(hist.pushed) :
        /\ Len(outputs[k]) = 2
        /\ outputs[k][1] # outputs[k][2]
        /\ hist.pushed[k] = FrameAdd(outputs[k][2], outputs[k][1])

\* The calls process_amount(sr, n1), process_amount(sr, n2) from rack r give
\* the stems and the rack of the one call process_amount(sr, n1 + n2).
SplitSame(r, sr, n1, n2) ==
    LET mid == RackAfter(r, sr, n1)
    IN  /\ RackAfter(mid, sr, n2) = RackAfter(r, sr, n1 + n2)
        /\ RackOutputs(r, sr, n1) \o RackOutputs(mid, sr, n2)
               = RackOutputs(r, sr, n1 + n2)

\* Amounts up to which every split of a call is compared stem by stem.
SplitMax == 3

C11_WitnessZero ==
    /\ pc = "finish"
    /\ amount = 0
    /\ hist.rack0 > 0
    /\ rack = hist.rack0

\* C12: a push_frame that fails with Full is neither dropped silently nor
\* waited on.  Every step of the push loop that counts an iteration or ends
\* the loop has enqueued its frame; a step taken with no room left is the
\* panic of expect, which leaves queue and pushed frames as they are; and
\* after the panic no step of the update follows: no further frame of it
\* is enqueued.
C12_FullIsFatal ==
    [][/\ (pc = "push" /\ (i' # i \/ pc' = "finish")) =>
            /\ FreeLen(Unwrap(output)) > 0
            /\ i' = i + 1
            /\ Unwrap(output').queue
                   = Append(Unwrap(output).queue, Mixed(outputs, i))
            /\ hist'.pushed = Append(hist.pushed, Mixed(outputs, i))
       /\ (pc = "push" /\ pc' # "push" /\ FreeLen(Unwrap(output)) = 0) =>
            pc' = "panicked"
       /\ (pc = "push" /\ pc' = "panicked") =>
            /\ FreeLen(Unwrap(output)) = 0
            /\ UNCHANGED <<output, i, hist, rack>>
       /\ pc = "panicked" => UNCHANGED vars
      ]_vars

\* A push has failed with Full before the update had pushed all its frames:
\* the update has panicked.
C12_Witness ==
    /\ pc = "panicked"
    /\ i < amount
    /\ Len(hist.pushed) = i
    /\ FreeLen(Unwrap(output)) = 0

\* C13: every update terminates without waiting on the consumer: it makes
\* at most free_len() pushes, free_len() read once before the loop, each
\* push a step that is always enabled; every completed update has requested
\* a repaint, so updates keep coming, with and without device.  The audio
\* thread is not assumed to run at all.
C13_KeepsTicking ==
    /\ []((Branched /\ hist.device) =>
            /\ i <= amount
            /\ Len(hist.pushed) = i
            /\ ~hist.drained => amount = FreeLen(Unwrap(hist.shown)))
    /\ [](pc = "push" => (ENABLED PushFrame))
    /\ [](pc = "idle" => env.repaint)
    /\ (pc # "idle") ~> (pc = "idle" /\ env.repaint)
    /\ <>(ticks = LiveTicks /\ pc = "idle")

\* The last update of the run has pushed frames to a device and requested
\* a repaint, after an update without device.
C13_Witness ==
    /\ ticks = LiveTicks
    /\ pc = "idle"
    /\ env.repaint
    /\ hist.device
    /\ hist.pushed # <<>>
    /\ rack > Cap * LiveTicks

\* C14: with a device attached the frames of an update are enqueued in
\* sample order: the k-th frame pushed is the sum of the stems of group k
\* of this update's process_amount call, the group of sample tick
\* rack0 + k - 1; and the queue holds, oldest first, the frames of the
\* sample ticks sent to the device and not yet taken, in ascending order of
\* their tick: none reordered, none twice, none of an update skipped.
C14_SampleOrder ==
    /\ IsSome(output) =>
          LET queue == Unwrap(output).queue
          IN  /\ Len(queue) = Len(hist.sent) - hist.taken
              /\ \A j \in 1..Len(queue) :
                    queue[j] = MixOf(StemsAt(hist.sent[hist.taken + j]))
              /\ \A a, b \in 1..Len(hist.sent) :
                    a < b => hist.sent[a] < hist.sent[b]
    /\ (Branched /\ hist.device) =>
          LET n == Len(hist.pushed)
          IN  /\ n = i
              /\ \A k \in 1..n :
                    /\ outputs[k] = StemsAt(hist.rack0 + k - 1)
                    /\ hist.pushed[k] = MixOf(outputs[k])
                    /\ hist.sent[Len(hist.sent) - n + k] = hist.rack0 + k - 1
              /\ pc = "finish" => n = amount

\* The queue holds a frame of an earlier update followed by a different
\* frame of this update, after the consumer took one.
C14_Witness ==
    /\ pc = "finish"
    /\ hist.device
    /\ hist.taken >= 1
    /\ Len(hist.pushed) = 1
    /\ Len(Unwrap(output).queue) = 2
    /\ Unwrap(output).queue[1] # Unwrap(output).queue[2]
    /\ Unwrap(output).queue[2] = hist.pushed[1]

\* C15: the sample rate passed to process_amount is the sample_rate() of
\* the device process finds attached, and sample_rate_or_default(), the
\* fallback, only when it finds none; an update whose frames go to a
\* device never ran the rack at the fallback in place of the device's
\* rate.
C15_RateOfTheDevice ==
    Branched =>
        /\ hist.device => /\ IsSome(output)
                          /\ call_sr = Unwrap(output).sample_rate
                          /\ call_sr \in DeviceRates
        /\ ~hist.device => /\ output = None
                           /\ call_sr = SampleRateOrDefault(output)
                           /\ call_sr = DefaultRate
        /\ hist.pushed # <<>> => call_sr = Unwrap(hist.shown).sample_rate

\* Frames have been pushed to a device whose rate is not the fallback, and
\* the rack ran at the device's rate.
C15_Witness ==
    /\ pc = "finish"
    /\ hist.pushed # <<>>
    /\ Unwrap(output).sample_rate # DefaultRate
    /\ call_sr = Unwrap(output).sample_rate

\* Frames the consumer has taken since process read free_len().
TakenSinceRead == hist.taken - hist.taken0

\* C16: however the consumer's drains interleave with an update (before
\* the free_len() read, between the read and a push, between pushes), no
\* push of the update fails with Full and the queue never exceeds its
\* capacity: at every point of the push loop the room left is the number
\* of pushes still to come plus the frames taken since the read.  A drain
\* during the update leaves the queue under-filled by exactly the frames
\* taken since the read.
C16_DrainsNeverCauseFull ==
    /\ pc # "panicked"
    /\ IsSome(output) => Len(Unwrap(output).queue) <= Cap
    /\ (Branched /\ hist.device) =>
          /\ TakenSinceRead >= 0
          /\ FreeLen(Unwrap(output)) = (amount - i) + TakenSinceRead
          /\ pc = "push" => FreeLen(Unwrap(output)) > 0
          /\ pc = "finish" => FreeLen(Unwrap(output)) = TakenSinceRead

\* The consumer took a frame between the free_len() read and the last push
\* of an update that pushed all its frames: the queue is left under-filled.
C16_Witness ==
    /\ pc = "finish"
    /\ hist.device
    /\ amount > 0
    /\ Len(hist.pushed) = amount
    /\ TakenSinceRead > 0
    /\ FreeLen(Unwrap(output)) > 0

\* C17: with a device attached exactly `amount` frames are pushed whatever
\* the number of groups process_amount returned: the frame of an index
\* that has a group is the sum of that group's stems, the frame of an index
\* without group is Frame::ZERO, and a group at or past index `amount` is
\* never enqueued.
C17_ExactlyAmountFrames ==
    /\ pc # "panicked"
    /\ (Branched /\ hist.device) =>
          /\ Len(hist.pushed) = i
          /\ i <= amount
          /\ pc = "finish" => Len(hist.pushed) = amount
          /\ \A k \in 1..Len(hist.pushed) :
                hist.pushed[k] = IF k <= Len(outputs) THEN MixOf(outputs[k])
                                 ELSE ZERO
          /\ ~hist.drained =>
                /\ Len(Unwrap(output).queue) + (amount - i) = Cap
                /\ \A k \in 1..i :
                      Unwrap(output).queue[Cap - amount + k] = hist.pushed[k]

\* process_amount returned one group less than the two asked for; two
\* frames were pushed, the second one silence although the first is not.
C17_Witness ==
    /\ pc = "finish"
    /\ hist.device
    /\ amount = 2
    /\ Len(outputs) = 1
    /\ Len(hist.pushed) = 2
    /\ hist.pushed[1] # ZERO
    /\ hist.pushed[2] = ZERO

\* process_amount returned one group more than asked for, a group that does
\* not mix to silence: it was not enqueued.
C17_WitnessMore ==
    /\ pc = "finish"
    /\ hist.device
    /\ Len(outputs) = amount + 1
    /\ MixOf(outputs[amount + 1]) # ZERO
    /\ Len(hist.pushed) = amount

\* C18: after any number of completed updates the frames enqueued, to
\* whatever device, are as many as the sample ticks the rack was asked to
\* advance in updates with a device; the sample ticks of updates without
\* device, which make up the rest of the rack's advance, enqueued nothing.
C18_FramesEqualDeviceTicks ==
    /\ pc \in {"idle", "finish"} =>
          /\ hist.enq = hist.asked.device
          /\ rack = hist.asked.device + hist.asked.absent
    /\ pc = "push" => hist.enq + (amount - i) = hist.asked.device
    /\ (Branched /\ ~hist.device) => hist.pushed = <<>>

\* Updates with and without device are completed: the rack has advanced in
\* both kinds, and as many frames are enqueued as the first kind asked for.
C18_Witness ==
    /\ pc = "idle"
    /\ ticks >= 2
    /\ hist.asked.device > 0
    /\ hist.asked.absent > 0
    /\ hist.enq = hist.asked.device
    /\ rack > hist.enq

\* floor(rate * (the sum of all deltas so far, in seconds)), exactly.
ExactTotal == ExactSamples(DefaultRate, SumDurations(hist.all))

RECURSIVE SumSamples(_)
\* The sum of the truncated f32 sample counts of these deltas.
SumSamples(deltas) ==
    IF deltas = <<>> THEN 0
    ELSE AbsentSamples(None, Head(deltas)) + SumSamples(Tail(deltas))

\* Every delta is shorter than one sample period at the fallback rate.
AllBelowOneSample ==
    \A k \in 1..Len(hist.all) : ExactSamples(DefaultRate, hist.all[k]) = 0

C19_WitnessShort ==
    /\ pc = "finish"
    /\ ticks = 1
    /\ ExactTotal - rack = 1

\* The rack has been asked for more than rate * (sum of the deltas).
C19_WitnessOver ==
    /\ pc = "finish"
    /\ rack > ExactTotal

====
